---- MODULE Spec2Model ----
(***************************************************************************)
(* The bag-of-words logistic-regression script of                          *)
(* tutorial/zh/beginner_source/nlp/deep_learning_tutorial.py, lines        *)
(* 158-282, as a state machine: one action per statement, the module's     *)
(* global names as variables.                                              *)
(*                                                                         *)
(* Tensors of counts are sequences of integers (Python index k is          *)
(* position k + 1).  The model's parameters are real-valued and are kept   *)
(* symbolically: theta is the list of updates applied so far to the        *)
(* initial parameters, each update the learning rate and the gradient it   *)
(* subtracted; a gradient is the bag of loss terms accumulated into .grad  *)
(* by backward(); a loss term names the log-probabilities it was computed  *)
(* from (the input vector and the parameter version) and the target.       *)
(*                                                                         *)
(* bound is the set of global names assigned so far (the targets of the    *)
(* vocabulary loop, sent, _ and word, are left out: nothing reads them     *)
(* after the loop).  Two history variables record what the script itself   *)
(* does not keep: ops, the statements of the training loop's body executed *)
(* so far in the current iteration, and at_model, the values the names of  *)
(* the vocabulary and the data had when the model was constructed.         *)
(***************************************************************************)
EXTENDS Integers, Sequences, FiniteSets, Bags, TLC

VARIABLES pc, bound, data, test_data, corpus, si, wi, word_to_ix,
          VOCAB_SIZE, NUM_LABELS, model, theta, grad, sample, bow_vector,
          label_to_ix, optimizer, epoch_it, epoch, inst_it, test_it,
          instance, label, bow_vec, target, log_probs, loss, ops, at_model

vars == <<pc, bound, data, test_data, corpus, si, wi, word_to_ix,
          VOCAB_SIZE, NUM_LABELS, model, theta, grad, sample, bow_vector,
          label_to_ix, optimizer, epoch_it, epoch, inst_it, test_it,
          instance, label, bow_vec, target, log_probs, loss, ops, at_model>>

(***************************************************************************)
(* Values                                                                  *)
(***************************************************************************)

\* The literal training set of the script.
DataLiteral ==
    << [sent |-> <<"me", "gusta", "comer", "en", "la", "cafeteria">>,
        label |-> "SPANISH"],
       [sent |-> <<"Give", "it", "to", "me">>, label |-> "ENGLISH"],
       [sent |-> <<"No", "creo", "que", "sea", "una", "buena", "idea">>,
        label |-> "SPANISH"],
       [sent |-> <<"No", "it", "is", "not", "a", "good", "idea", "to", "get",
                   "lost", "at", "sea">>, label |-> "ENGLISH"] >>

\* The literal test set of the script.
TestDataLiteral ==
    << [sent |-> <<"Yo", "creo", "que", "si">>, label |-> "SPANISH"],
       [sent |-> <<"it", "is", "lost", "on", "me">>, label |-> "ENGLISH"] >>

\* range(100)
NumEpochs == 100

\* lr=0.1, as the fraction 1/10
LearningRate == <<1, 10>>

\* {"SPANISH": 0, "ENGLISH": 1}
LabelToIxLiteral ==
    [l \in {"SPANISH", "ENGLISH"} |-> IF l = "SPANISH" THEN 0 ELSE 1]

\* An empty dict.
EmptyDict == [w \in {} |-> 0]

\* len(d) of a dict
DictLen(d) == Cardinality(DOMAIN d)

\* A name that is not bound yet holds one of these.
NoInt == 0 - 1
NoModel == [in_features |-> NoInt, out_features |-> NoInt]
NoLogProbs == [x |-> <<>>, at |-> NoInt]
NoLoss == [lp |-> NoLogProbs, target |-> <<>>]
NoExample == [sent |-> <<>>, label |-> ""]
NoOptimizer == [lr |-> <<>>]

\* The exceptions that end the script.
Errors == {"KeyError", "IndexError", "RuntimeError", "ValueError"}

(***************************************************************************)
(* Vocabulary                                                              *)
(***************************************************************************)

\* Mutant of VocabCorpus: the vocabulary is built from the training set alone.
VocabCorpusTrainOnly == data

\* data + test_data, the list the vocabulary loop iterates over
VocabCorpus == data \o test_data

\* Mutant of AddWord: the membership test is missing, every occurrence of a
\* word is given the index len(word_to_ix).
AddWordNoGuard(d, word) ==
    [w \in DOMAIN d \cup {word} |-> IF w = word THEN DictLen(d) ELSE d[w]]

\* Mutant of AddWord: indices start at 1, word_to_ix[word] = len(word_to_ix) + 1.
AddWordOneBased(d, word) ==
    IF word \in DOMAIN d
    THEN d
    ELSE [w \in DOMAIN d \cup {word} |-> IF w = word THEN DictLen(d) + 1 ELSE d[w]]

\* if word not in word_to_ix: word_to_ix[word] = len(word_to_ix)
AddWord(d, word) ==
    IF word \in DOMAIN d
    THEN d
    ELSE [w \in DOMAIN d \cup {word} |-> IF w = word THEN DictLen(d) ELSE d[w]]

(***************************************************************************)
(* make_bow_vector, make_target, forward                                   *)
(***************************************************************************)

\* torch.zeros(n)
Zeros(n) == [k \in 1..n |-> 0]

\* Mutant of BowStep: vec[i] = 1, presence instead of a count.
BowStepPresence(vec, i) ==
    LET p == IF i < 0 THEN i + Len(vec) + 1 ELSE i + 1
    IN  [vec EXCEPT ![p] = 1]

\* vec[i] += 1: Python index i, a negative one counted from the end
BowStep(vec, i) ==
    LET p == IF i < 0 THEN i + Len(vec) + 1 ELSE i + 1
    IN  [vec EXCEPT ![p] = @ + 1]

\* whether vec[i] is inside a tensor of n elements
InRange(i, n) == -n <= i /\ i < n

RECURSIVE BowLoop(_, _, _, _)
\* the for loop of make_bow_vector from the k-th word on
BowLoop(vec, sentence, k, w2i) ==
    IF k > Len(sentence)
    THEN [err |-> "", val |-> <<vec>>]
    ELSE IF sentence[k] \notin DOMAIN w2i
    THEN [err |-> "KeyError", val |-> <<>>]
    ELSE IF ~InRange(w2i[sentence[k]], Len(vec))
    THEN [err |-> "IndexError", val |-> <<>>]
    ELSE BowLoop(BowStep(vec, w2i[sentence[k]]), sentence, k + 1, w2i)

\* make_bow_vector(sentence, word_to_ix): the 1 x len(word_to_ix) tensor
\* vec.view(1, -1), or the exception raised
make_bow_vector(sentence, w2i) ==
    BowLoop(Zeros(DictLen(w2i)), sentence, 1, w2i)

\* make_target(label, label_to_ix): torch.LongTensor([label_to_ix[label]])
make_target(lab, l2i) ==
    IF lab \in DOMAIN l2i
    THEN [err |-> "", val |-> <<l2i[lab]>>]
    ELSE [err |-> "KeyError", val |-> <<>>]

\* BoWClassifier.forward: log_softmax(linear(bow_vec), dim=1) under the
\* current parameters, for an input of any number of rows: nn.Linear maps
\* every row and rejects rows whose width is not in_features
forward(m, x, version) ==
    IF \A r \in 1..Len(x) : Len(x[r]) = m.in_features
    THEN [err |-> "", val |-> [x |-> x, at |-> version]]
    ELSE [err |-> "RuntimeError", val |-> NoLogProbs]

\* the target value nn.NLLLoss() leaves out of the loss (its default
\* ignore_index)
IgnoreIndex == 0 - 100

\* loss_function(log_probs, target): NLLLoss wants one target per row of
\* log_probs (ValueError otherwise) and rejects a class index outside 0..C-1
\* other than the ignored one
nll_loss(m, lp, tgt) ==
    IF Len(tgt) # Len(lp.x)
    THEN [err |-> "ValueError", val |-> NoLoss]
    ELSE IF \E k \in 1..Len(tgt) :
               /\ tgt[k] # IgnoreIndex
               /\ ~(tgt[k] >= 0 /\ tgt[k] < m.out_features)
    THEN [err |-> "IndexError", val |-> NoLoss]
    ELSE [err |-> "", val |-> [lp |-> lp, target |-> tgt]]

(***************************************************************************)
(* The script                                                              *)
(***************************************************************************)

inputVars == <<data, test_data>>
vocabVars == <<corpus, si, wi, word_to_ix, VOCAB_SIZE, NUM_LABELS>>
paramVars == <<model, theta, grad>>
sampleVars == <<sample, bow_vector>>
iterVars == <<epoch_it, epoch, inst_it, test_it>>
tempVars == <<instance, label, bow_vec, target, log_probs, loss>>

\* The names whose values the training and evaluation code only reads.
FrameNames == {"word_to_ix", "label_to_ix", "data", "test_data", "VOCAB_SIZE",
               "NUM_LABELS"}

\* Their values, and which of them are bound.
Frame ==
    [word_to_ix |-> word_to_ix, label_to_ix |-> label_to_ix, data |-> data,
     test_data |-> test_data, VOCAB_SIZE |-> VOCAB_SIZE,
     NUM_LABELS |-> NUM_LABELS, names |-> bound \cap FrameNames]

\* at_model before the model is constructed.
NoFrame ==
    [word_to_ix |-> EmptyDict, label_to_ix |-> EmptyDict, data |-> <<>>,
     test_data |-> <<>>, VOCAB_SIZE |-> NoInt, NUM_LABELS |-> NoInt,
     names |-> {}]

\* The state after lines 158-164: data and test_data are bound, nothing else.
Init ==
    /\ pc = "vocab_init"
    /\ bound = {"data", "test_data"}
    /\ data = DataLiteral
    /\ test_data = TestDataLiteral
    /\ corpus = <<>>
    /\ si = 1
    /\ wi = 1
    /\ word_to_ix = EmptyDict
    /\ VOCAB_SIZE = NoInt
    /\ NUM_LABELS = NoInt
    /\ model = NoModel
    /\ theta = <<>>
    /\ grad = EmptyBag
    /\ sample = NoExample
    /\ bow_vector = <<>>
    /\ label_to_ix = EmptyDict
    /\ optimizer = NoOptimizer
    /\ epoch_it = 0
    /\ epoch = NoInt
    /\ inst_it = 1
    /\ test_it = 1
    /\ instance = <<>>
    /\ label = ""
    /\ bow_vec = <<>>
    /\ target = <<>>
    /\ log_probs = NoLogProbs
    /\ loss = NoLoss
    /\ ops = <<>>
    /\ at_model = NoFrame

\* An uncaught exception ends the script where it is raised.
Raise(e) ==
    /\ pc' = e
    /\ UNCHANGED <<at_model, bound, inputVars, vocabVars, paramVars,
                   sampleVars, label_to_ix, optimizer, iterVars, tempVars,
                   ops>>

\* word_to_ix = {} and the start of "for sent, _ in data + test_data"
VocabInit ==
    /\ pc = "vocab_init"
    /\ word_to_ix' = EmptyDict
    /\ corpus' = VocabCorpus
    /\ si' = 1
    /\ wi' = 1
    /\ bound' = bound \cup {"word_to_ix"}
    /\ pc' = "vocab"
    /\ UNCHANGED <<at_model, inputVars, VOCAB_SIZE, NUM_LABELS, paramVars,
                   sampleVars, label_to_ix, optimizer, iterVars, tempVars,
                   ops>>

\* one pass of "for word in sent" with its body
VocabWord ==
    /\ pc = "vocab"
    /\ si <= Len(corpus)
    /\ wi <= Len(corpus[si].sent)
    /\ word_to_ix' = AddWord(word_to_ix, corpus[si].sent[wi])
    /\ wi' = wi + 1
    /\ UNCHANGED <<at_model, pc, bound, inputVars, corpus, si, VOCAB_SIZE,
                   NUM_LABELS, paramVars, sampleVars, label_to_ix, optimizer,
                   iterVars, tempVars, ops>>

\* the inner loop is exhausted: the outer loop takes the next sentence
VocabNextSent ==
    /\ pc = "vocab"
    /\ si <= Len(corpus)
    /\ wi > Len(corpus[si].sent)
    /\ si' = si + 1
    /\ wi' = 1
    /\ UNCHANGED <<at_model, pc, bound, inputVars, corpus, word_to_ix,
                   VOCAB_SIZE, NUM_LABELS, paramVars, sampleVars, label_to_ix,
                   optimizer, iterVars, tempVars, ops>>

\* the outer loop is exhausted; VOCAB_SIZE = len(word_to_ix); NUM_LABELS = 2
VocabDone ==
    /\ pc = "vocab"
    /\ si > Len(corpus)
    /\ VOCAB_SIZE' = DictLen(word_to_ix)
    /\ NUM_LABELS' = 2
    /\ bound' = bound \cup {"VOCAB_SIZE", "NUM_LABELS"}
    /\ pc' = "model"
    /\ UNCHANGED <<at_model, inputVars, corpus, si, wi, word_to_ix, paramVars,
                   sampleVars, label_to_ix, optimizer, iterVars, tempVars,
                   ops>>

\* model = BoWClassifier(NUM_LABELS, VOCAB_SIZE):
\* self.linear = nn.Linear(vocab_size, num_labels), freshly initialised
MakeModel ==
    /\ pc = "model"
    /\ model' = [in_features |-> VOCAB_SIZE, out_features |-> NUM_LABELS]
    /\ theta' = <<>>
    /\ grad' = EmptyBag
    /\ at_model' = Frame
    /\ bound' = bound \cup {"model"}
    /\ pc' = "sample"
    /\ UNCHANGED <<inputVars, vocabVars, sampleVars, label_to_ix, optimizer,
                   iterVars, tempVars, ops>>

\* sample = data[0]
Sample ==
    /\ pc = "sample"
    /\ IF Len(data) = 0
       THEN Raise("IndexError")
       ELSE /\ sample' = data[1]
            /\ bound' = bound \cup {"sample"}
            /\ pc' = "sample_bow"
            /\ UNCHANGED <<at_model, inputVars, vocabVars, paramVars,
                           bow_vector, label_to_ix, optimizer, iterVars,
                           tempVars, ops>>

\* bow_vector = make_bow_vector(sample[0], word_to_ix)
SampleBow ==
    /\ pc = "sample_bow"
    /\ LET r == make_bow_vector(sample.sent, word_to_ix)
       IN  IF r.err # "" THEN Raise(r.err)
           ELSE /\ bow_vector' = r.val
                /\ bound' = bound \cup {"bow_vector"}
                /\ pc' = "sample_forward"
                /\ UNCHANGED <<at_model, inputVars, vocabVars, paramVars,
                               sample, label_to_ix, optimizer, iterVars,
                               tempVars, ops>>

\* log_probs = model(autograd.Variable(bow_vector)); print(log_probs)
SampleForward ==
    /\ pc = "sample_forward"
    /\ LET r == forward(model, bow_vector, Len(theta))
       IN  IF r.err # "" THEN Raise(r.err)
           ELSE /\ log_probs' = r.val
                /\ bound' = bound \cup {"log_probs"}
                /\ pc' = "label_to_ix"
                /\ UNCHANGED <<at_model, inputVars, vocabVars, paramVars,
                               sampleVars, label_to_ix, optimizer, iterVars,
                               instance, label, bow_vec, target, loss, ops>>

\* label_to_ix = {"SPANISH": 0, "ENGLISH": 1}, then the first test loop starts
LabelToIx ==
    /\ pc = "label_to_ix"
    /\ label_to_ix' = LabelToIxLiteral
    /\ bound' = bound \cup {"label_to_ix"}
    /\ test_it' = 1
    /\ pc' = "pre_head"
    /\ UNCHANGED <<at_model, inputVars, vocabVars, paramVars, sampleVars,
                   optimizer, epoch_it, epoch, inst_it, tempVars, ops>>

\* Mutant of EvalForward: the evaluation loop also calls optimizer.step().
EvalForwardSteps(f, h) ==
    /\ pc = f
    /\ LET r == forward(model, bow_vec, Len(theta))
       IN  IF r.err # "" THEN Raise(r.err)
           ELSE /\ log_probs' = r.val
                /\ theta' = Append(theta, [lr |-> optimizer.lr, grad |-> grad])
                /\ bound' = bound \cup {"log_probs"}
                /\ pc' = h
                /\ UNCHANGED <<at_model, inputVars, vocabVars, model, grad,
                               sampleVars, label_to_ix, optimizer, iterVars,
                               instance, label, bow_vec, target, loss, ops>>

\* "for instance, label in test_data" at pc h: the next test example and on
\* to b, or the end of the loop and on to exit
EvalHead(h, b, exit) ==
    /\ pc = h
    /\ IF test_it <= Len(test_data)
       THEN /\ instance' = test_data[test_it].sent
            /\ label' = test_data[test_it].label
            /\ test_it' = test_it + 1
            /\ bound' = bound \cup {"instance", "label"}
            /\ pc' = b
       ELSE /\ pc' = exit
            /\ UNCHANGED <<instance, label, test_it, bound>>
    /\ UNCHANGED <<at_model, inputVars, vocabVars, paramVars, sampleVars,
                   label_to_ix, optimizer, epoch_it, epoch, inst_it, bow_vec,
                   target, log_probs, loss, ops>>

\* bow_vec = autograd.Variable(make_bow_vector(instance, word_to_ix))
EvalBow(b, f) ==
    /\ pc = b
    /\ LET r == make_bow_vector(instance, word_to_ix)
       IN  IF r.err # "" THEN Raise(r.err)
           ELSE /\ bow_vec' = r.val
                /\ bound' = bound \cup {"bow_vec"}
                /\ pc' = f
                /\ UNCHANGED <<at_model, inputVars, vocabVars, paramVars,
                               sampleVars, label_to_ix, optimizer, iterVars,
                               instance, label, target, log_probs, loss, ops>>

\* log_probs = model(bow_vec); print(log_probs)
EvalForward(f, h) ==
    /\ pc = f
    /\ LET r == forward(model, bow_vec, Len(theta))
       IN  IF r.err # "" THEN Raise(r.err)
           ELSE /\ log_probs' = r.val
                /\ bound' = bound \cup {"log_probs"}
                /\ pc' = h
                /\ UNCHANGED <<at_model, inputVars, vocabVars, paramVars,
                               sampleVars, label_to_ix, optimizer, iterVars,
                               instance, label, bow_vec, target, loss, ops>>

\* print(next(model.parameters())[:, word_to_ix["creo"]]) at pc p
PrintCreo(p, after) ==
    /\ pc = p
    /\ IF "creo" \notin DOMAIN word_to_ix THEN Raise("KeyError")
       ELSE IF ~InRange(word_to_ix["creo"], model.in_features)
       THEN Raise("IndexError")
       ELSE /\ pc' = after
            /\ UNCHANGED <<at_model, bound, inputVars, vocabVars, paramVars,
                           sampleVars, label_to_ix, optimizer, iterVars,
                           tempVars, ops>>

\* the evaluation before training, lines 240-246
PreHead == EvalHead("pre_head", "pre_bow", "pre_creo")
PreBow == EvalBow("pre_bow", "pre_forward")
PreForward == EvalForward("pre_forward", "pre_head")
PreCreo == PrintCreo("pre_creo", "optimizer")

\* loss_function = nn.NLLLoss(); optimizer = optim.SGD(model.parameters(),
\* lr=0.1); then "for epoch in range(100)" starts
MakeOptimizer ==
    /\ pc = "optimizer"
    /\ optimizer' = [lr |-> LearningRate]
    /\ bound' = bound \cup {"loss_function", "optimizer"}
    /\ epoch_it' = 0
    /\ pc' = "epoch_head"
    /\ UNCHANGED <<at_model, inputVars, vocabVars, paramVars, sampleVars,
                   label_to_ix, epoch, inst_it, test_it, tempVars, ops>>

\* Mutant of TrainSet: the training loop runs over the test examples too.
TrainSetWithTest == data \o test_data

\* the list "for instance, label in data" iterates over
TrainSet == data

\* Mutant of TrainBody: optimizer.step() is called before loss.backward().
TrainBodyStepFirst ==
    <<"zero_grad", "make_bow", "make_target", "forward", "loss", "step",
      "backward">>

\* the statements of the training loop's body, in the order of lines 258-274
TrainBody ==
    <<"zero_grad", "make_bow", "make_target", "forward", "loss", "backward",
      "step">>

\* the statement after statement l of the body; after the last, the loop head
After(l) ==
    LET k == CHOOSE j \in 1..Len(TrainBody) : TrainBody[j] = l
    IN  IF k < Len(TrainBody) THEN TrainBody[k + 1] ELSE "inst_head"

\* "for epoch in range(100)": the next epoch, or the end of training
EpochHead ==
    /\ pc = "epoch_head"
    /\ IF epoch_it < NumEpochs
       THEN /\ epoch' = epoch_it
            /\ epoch_it' = epoch_it + 1
            /\ inst_it' = 1
            /\ bound' = bound \cup {"epoch"}
            /\ pc' = "inst_head"
            /\ UNCHANGED test_it
       ELSE /\ pc' = "post_head"
            /\ test_it' = 1
            /\ UNCHANGED <<epoch, epoch_it, inst_it, bound>>
    /\ UNCHANGED <<at_model, inputVars, vocabVars, paramVars, sampleVars,
                   label_to_ix, optimizer, tempVars, ops>>

\* "for instance, label in data": the next training example, or the end of
\* the epoch
InstHead ==
    /\ pc = "inst_head"
    /\ IF inst_it <= Len(TrainSet)
       THEN /\ instance' = TrainSet[inst_it].sent
            /\ label' = TrainSet[inst_it].label
            /\ inst_it' = inst_it + 1
            /\ bound' = bound \cup {"instance", "label"}
            /\ ops' = <<>>
            /\ pc' = TrainBody[1]
       ELSE /\ pc' = "epoch_head"
            /\ UNCHANGED <<instance, label, inst_it, bound, ops>>
    /\ UNCHANGED <<at_model, inputVars, vocabVars, paramVars, sampleVars,
                   label_to_ix, optimizer, epoch_it, epoch, test_it, bow_vec,
                   target, log_probs, loss>>

\* Mutant of ZeroGrad: the call is missing, .grad keeps what it holds.
ZeroGradMissing ==
    /\ pc = "zero_grad"
    /\ pc' = After("zero_grad")
    /\ UNCHANGED <<at_model, bound, inputVars, vocabVars, paramVars,
                   sampleVars, label_to_ix, optimizer, iterVars, tempVars,
                   ops>>

\* model.zero_grad()
ZeroGrad ==
    /\ pc = "zero_grad"
    /\ grad' = EmptyBag
    /\ ops' = Append(ops, "zero_grad")
    /\ pc' = After("zero_grad")
    /\ UNCHANGED <<at_model, bound, inputVars, vocabVars, model, theta,
                   sampleVars, label_to_ix, optimizer, iterVars, tempVars>>

\* bow_vec = autograd.Variable(make_bow_vector(instance, word_to_ix))
MakeBow ==
    /\ pc = "make_bow"
    /\ LET r == make_bow_vector(instance, word_to_ix)
       IN  IF r.err # "" THEN Raise(r.err)
           ELSE /\ bow_vec' = r.val
                /\ bound' = bound \cup {"bow_vec"}
                /\ ops' = Append(ops, "make_bow")
                /\ pc' = After("make_bow")
                /\ UNCHANGED <<at_model, inputVars, vocabVars, paramVars,
                               sampleVars, label_to_ix, optimizer, iterVars,
                               instance, label, target, log_probs, loss>>

\* target = autograd.Variable(make_target(label, label_to_ix))
MakeTarget ==
    /\ pc = "make_target"
    /\ LET r == make_target(label, label_to_ix)
       IN  IF r.err # "" THEN Raise(r.err)
           ELSE /\ target' = r.val
                /\ bound' = bound \cup {"target"}
                /\ ops' = Append(ops, "make_target")
                /\ pc' = After("make_target")
                /\ UNCHANGED <<at_model, inputVars, vocabVars, paramVars,
                               sampleVars, label_to_ix, optimizer, iterVars,
                               instance, label, bow_vec, log_probs, loss>>

\* log_probs = model(bow_vec)
Forward ==
    /\ pc = "forward"
    /\ LET r == forward(model, bow_vec, Len(theta))
       IN  IF r.err # "" THEN Raise(r.err)
           ELSE /\ log_probs' = r.val
                /\ bound' = bound \cup {"log_probs"}
                /\ ops' = Append(ops, "forward")
                /\ pc' = After("forward")
                /\ UNCHANGED <<at_model, inputVars, vocabVars, paramVars,
                               sampleVars, label_to_ix, optimizer, iterVars,
                               instance, label, bow_vec, target, loss>>

\* loss = loss_function(log_probs, target)
Loss ==
    /\ pc = "loss"
    /\ LET r == nll_loss(model, log_probs, target)
       IN  IF r.err # "" THEN Raise(r.err)
           ELSE /\ loss' = r.val
                /\ bound' = bound \cup {"loss"}
                /\ ops' = Append(ops, "loss")
                /\ pc' = After("loss")
                /\ UNCHANGED <<at_model, inputVars, vocabVars, paramVars,
                               sampleVars, label_to_ix, optimizer, iterVars,
                               instance, label, bow_vec, target, log_probs>>

\* loss.backward(): the gradient of loss is added to the parameters' .grad
Backward ==
    /\ pc = "backward"
    /\ grad' = grad (+) SetToBag({loss})
    /\ ops' = Append(ops, "backward")
    /\ pc' = After("backward")
    /\ UNCHANGED <<at_model, bound, inputVars, vocabVars, model, theta,
                   sampleVars, label_to_ix, optimizer, iterVars, tempVars>>

\* optimizer.step(): plain SGD, theta <- theta - lr * theta.grad
Step ==
    /\ pc = "step"
    /\ theta' = Append(theta, [lr |-> optimizer.lr, grad |-> grad])
    /\ ops' = Append(ops, "step")
    /\ pc' = After("step")
    /\ UNCHANGED <<at_model, bound, inputVars, vocabVars, model, grad,
                   sampleVars, label_to_ix, optimizer, iterVars, tempVars>>

\* the evaluation after training, lines 276-282
PostHead == EvalHead("post_head", "post_bow", "post_creo")
PostBow == EvalBow("post_bow", "post_forward")
PostForward == EvalForward("post_forward", "post_head")
PostCreo == PrintCreo("post_creo", "done")

Next ==
    \/ VocabInit
    \/ VocabWord
    \/ VocabNextSent
    \/ VocabDone
    \/ MakeModel
    \/ Sample
    \/ SampleBow
    \/ SampleForward
    \/ LabelToIx
    \/ PreHead
    \/ PreBow
    \/ PreForward
    \/ PreCreo
    \/ MakeOptimizer
    \/ EpochHead
    \/ InstHead
    \/ ZeroGrad
    \/ MakeBow
    \/ MakeTarget
    \/ Forward
    \/ Loss
    \/ Backward
    \/ Step
    \/ PostHead
    \/ PostBow
    \/ PostForward
    \/ PostCreo

Spec == Init /\ [][Next]_vars

(***************************************************************************)
(* Properties of the vocabulary                                            *)
(***************************************************************************)

RECURSIVE Flatten(_)
\* the words of a list of examples, in reading order
Flatten(c) == IF c = <<>> THEN <<>> ELSE c[1].sent \o Flatten(Tail(c))

\* the words the vocabulary loop has handled so far, in order
Processed ==
    IF si > Len(corpus)
    THEN Flatten(corpus)
    ELSE Flatten(SubSeq(corpus, 1, si - 1)) \o SubSeq(corpus[si].sent, 1, wi - 1)

\* the elements of a sequence
Range(s) == {s[k] : k \in 1..Len(s)}

\* the position of the first occurrence of w in s
FirstPos(s, w) == CHOOSE k \in 1..Len(s) : s[k] = w /\ \A j \in 1..(k - 1) : s[j] # w

\* C1: once a word has an index in word_to_ix, no later step of the script
\* removes the word or changes its index.
C1_IndexStable ==
    [][\A w \in DOMAIN word_to_ix :
          w \in DOMAIN word_to_ix' /\ word_to_ix'[w] = word_to_ix[w]]_vars

\* C1 witness: the loop has just handled the second occurrence of "me" (the
\* last word of the second sentence) and "me" still has the index 0 it was
\* given as the very first word.
C1_Witness ==
    /\ pc = "vocab"
    /\ si = 2
    /\ wi = 5
    /\ corpus[2].sent[4] = "me"
    /\ corpus[1].sent[1] = "me"
    /\ word_to_ix["me"] = 0
    /\ DictLen(word_to_ix) = 9

\* C9: in every state word_to_ix maps exactly the distinct words handled so
\* far one-to-one onto 0..len(word_to_ix)-1, in the order of their first
\* occurrences; and VOCAB_SIZE, once bound, is the number of distinct words
\* of data + test_data.
C9_VocabBijection ==
    /\ DOMAIN word_to_ix = Range(Processed)
    /\ {word_to_ix[w] : w \in DOMAIN word_to_ix} = 0..(DictLen(word_to_ix) - 1)
    /\ \A w1, w2 \in DOMAIN word_to_ix :
          /\ word_to_ix[w1] = word_to_ix[w2] => w1 = w2
          /\ word_to_ix[w1] < word_to_ix[w2]
                <=> FirstPos(Processed, w1) < FirstPos(Processed, w2)
    /\ "VOCAB_SIZE" \in bound =>
          VOCAB_SIZE = Cardinality(Range(Flatten(data \o test_data)))

\* C9 witness: the whole corpus of 38 words has been handled, 12 of them
\* repeats, and VOCAB_SIZE is bound to the 26 distinct ones.
C9_Witness ==
    /\ "VOCAB_SIZE" \in bound
    /\ Len(Processed) = 38
    /\ VOCAB_SIZE = 26
    /\ word_to_ix["on"] = 25

\* C10: the script raises no exception; once the vocabulary is built every
\* word of data and test_data is a key of word_to_ix with an index in
\* 0..VOCAB_SIZE-1; every label of data is a key of label_to_ix with a class
\* index in 0..NUM_LABELS-1; and every vector make_bow_vector has returned is
\* 1 x VOCAB_SIZE, the input width of the model.
C10_NoLookupFails ==
    /\ pc \notin Errors
    /\ "VOCAB_SIZE" \in bound =>
          \A w \in Range(Flatten(data \o test_data)) :
              /\ w \in DOMAIN word_to_ix
              /\ word_to_ix[w] \in 0..(VOCAB_SIZE - 1)
    /\ "label_to_ix" \in bound =>
          \A k \in 1..Len(data) :
              /\ data[k].label \in DOMAIN label_to_ix
              /\ label_to_ix[data[k].label] \in 0..(NUM_LABELS - 1)
    /\ "bow_vector" \in bound =>
          /\ Len(bow_vector) = 1
          /\ Len(bow_vector[1]) = VOCAB_SIZE
          /\ model.in_features = VOCAB_SIZE
    /\ "bow_vec" \in bound =>
          /\ Len(bow_vec) = 1
          /\ Len(bow_vec[1]) = VOCAB_SIZE
          /\ model.in_features = VOCAB_SIZE

\* C10 witness: the script has run to its end, the last vector built being
\* that of the second test sentence, whose word "on" occurs in no training
\* sentence.
C10_Witness ==
    /\ pc = "done"
    /\ Len(theta) = 400
    /\ instance = test_data[2].sent
    /\ bow_vec[1][word_to_ix["on"] + 1] = 1

(***************************************************************************)
(* Properties of training and evaluation                                   *)
(***************************************************************************)

\* the loss term of training example j computed under parameter version v
TermOf(j, v) ==
    [lp |-> [x |-> make_bow_vector(data[j].sent, word_to_ix).val, at |-> v],
     target |-> <<label_to_ix[data[j].label]>>]

\* the input vectors of the test examples
TestVectors ==
    {make_bow_vector(test_data[t].sent, word_to_ix).val : t \in 1..Len(test_data)}

\* the program positions of the two evaluation passes
EvalPcs == {"pre_head", "pre_bow", "pre_forward", "pre_creo",
            "post_head", "post_bow", "post_forward", "post_creo"}

\* the program positions after the training loop
AfterTraining == {"post_head", "post_bow", "post_forward", "post_creo", "done"}

\* C3: the training loop ends after 100 passes over the 4 training examples:
\* optimizer.step() is never called more than 400 times and has been called
\* exactly 400 times once the loop is left; the k-th call uses the gradient of
\* training example ((k-1) mod 4) + 1 and of no other example, so every pass
\* uses each example once in the order of data; no update uses a test
\* example; and the script never stops before its end.
C3_TrainingPasses ==
    /\ Len(data) = 4
    /\ Len(theta) <= 400
    /\ pc \in AfterTraining => Len(theta) = 400 /\ epoch_it = 100 /\ epoch = 99
    /\ \A k \in 1..Len(theta) :
          /\ BagToSet(theta[k].grad) = {TermOf(((k - 1) % 4) + 1, k - 1)}
          /\ \A t \in BagToSet(theta[k].grad) : t.lp.x \notin TestVectors
    /\ pc = "done" \/ ENABLED Next

\* C3 witness: the script has ended after the last pass (epoch 99) with 400
\* updates applied, the last one from the fourth training example.
C3_Witness ==
    /\ pc = "done"
    /\ epoch = 99
    /\ Len(theta) = 400
    /\ BagToSet(theta[400].grad) = {TermOf(4, 399)}

\* the body of the training loop up to the parameter update
BeforeStep ==
    <<"zero_grad", "make_bow", "make_target", "forward", "loss", "backward">>

\* C4: the model is constructed only when the vocabulary loop has handled all
\* of data + test_data and VOCAB_SIZE is set, and VOCAB_SIZE and word_to_ix do
\* not change afterwards; in every training iteration the statements run in
\* the order zero_grad, BoW vector, target, forward, loss, backward, step; and
\* the parameters change only right after the backward of the loss that this
\* iteration computed from this iteration's vector under the current
\* parameters.
C4_PhaseOrder ==
    [][/\ ("model" \notin bound /\ "model" \in bound') =>
            /\ corpus = data \o test_data
            /\ si > Len(corpus)
            /\ Range(Flatten(data \o test_data)) = DOMAIN word_to_ix
            /\ "VOCAB_SIZE" \in bound
            /\ VOCAB_SIZE = DictLen(word_to_ix)
            /\ model'.in_features = VOCAB_SIZE
       /\ "VOCAB_SIZE" \in bound =>
            VOCAB_SIZE' = VOCAB_SIZE /\ word_to_ix' = word_to_ix
       /\ (pc \in Range(TrainBody) /\ pc' \notin Errors) =>
            /\ ops' = SubSeq(BeforeStep \o <<"step">>, 1, Len(ops'))
            /\ Len(ops') = Len(ops) + 1
       /\ theta' # theta =>
            /\ ops = BeforeStep
            /\ ops' = BeforeStep \o <<"step">>
            /\ bow_vec = make_bow_vector(instance, word_to_ix).val
            /\ target = <<label_to_ix[label]>>
            /\ log_probs = [x |-> bow_vec, at |-> Len(theta)]
            /\ loss = [lp |-> log_probs, target |-> target]
            /\ BagIn(loss, grad)
      ]_vars

\* C4 witness: the fifth update has just been applied (the first instance of
\* the second pass) at the end of a complete iteration.
C4_Witness ==
    /\ pc = "inst_head"
    /\ epoch = 1
    /\ Len(theta) = 5
    /\ ops = BeforeStep \o <<"step">>
    /\ model.in_features = 26

\* C5 as stated: when the script has ended, word_to_ix, label_to_ix, data,
\* test_data, VOCAB_SIZE and NUM_LABELS are bound to the values they had when
\* the model was constructed, and no step of an evaluation pass changes the
\* parameters or their gradients.
C5_Original ==
    /\ [](pc = "done" => Frame = at_model)
    /\ [][(pc \in EvalPcs) => (theta' = theta /\ grad' = grad)]_vars

\* C5 amended: from the construction of the model on, no step changes
\* word_to_ix, data, test_data, VOCAB_SIZE or NUM_LABELS, and they end with the
\* values they had when the model was constructed; label_to_ix, which is bound
\* only after the model is constructed, is never changed once it is bound;
\* and no step of an evaluation pass changes the parameters or their
\* gradients.
C5_Frame ==
    [][/\ "model" \in bound =>
            /\ UNCHANGED <<word_to_ix, data, test_data, VOCAB_SIZE,
                           NUM_LABELS>>
            /\ [Frame EXCEPT !.label_to_ix = EmptyDict,
                             !.names = @ \ {"label_to_ix"}] = at_model
       /\ "label_to_ix" \in bound =>
            label_to_ix' = label_to_ix /\ "label_to_ix" \in bound'
       /\ pc \in EvalPcs => theta' = theta /\ grad' = grad
      ]_vars

\* C5 witness: the script has ended after 400 updates and both evaluation
\* passes; label_to_ix is bound although it was not when the model was
\* constructed.
C5_Witness ==
    /\ pc = "done"
    /\ Len(theta) = 400
    /\ test_it = 3
    /\ "label_to_ix" \in bound
    /\ "label_to_ix" \notin at_model.names
    /\ at_model.word_to_ix = word_to_ix

\* C8: .grad never holds more than the gradient of one loss, and every
\* parameter update is theta - (1/10) * g with g the gradient, taken once, of
\* the negative-log-likelihood loss of the current instance under the
\* parameters being updated, model.zero_grad() having run in this iteration.
C8_NoAccumulation ==
    [][/\ BagCardinality(grad') <= 1
       /\ theta' # theta =>
            /\ ops # <<>> /\ ops[1] = "zero_grad"
            /\ grad = SetToBag({[lp |-> [x |-> make_bow_vector(instance, word_to_ix).val,
                                        at |-> Len(theta)],
                                 target |-> <<label_to_ix[label]>>]})
            /\ theta' = Append(theta, [lr |-> <<1, 10>>, grad |-> grad])
      ]_vars

\* C8 witness: the second update has just been applied, with the gradient of
\* the second training example alone, after .grad held the first example's
\* gradient one iteration earlier.
C8_Witness ==
    /\ pc = "inst_head"
    /\ Len(theta) = 2
    /\ instance = data[2].sent
    /\ theta[1].grad = SetToBag({TermOf(1, 0)})
    /\ theta[2].grad = SetToBag({TermOf(2, 1)})
    /\ grad = theta[2].grad

(***************************************************************************)
(* make_bow_vector on its own: any sentence of at most MaxLen words over   *)
(* BowWords, against any vocabulary the vocabulary loop builds from such a *)
(* sentence.                                                               *)
(***************************************************************************)

\* the longest sentence tried
MaxLen == 4

\* the words tried
BowWords == {"hello", "world", "you"}

\* the sentences tried
BowSentences == UNION {[1..n -> BowWords] : n \in 0..MaxLen}

RECURSIVE BuildVocab(_, _)
\* the vocabulary loop over the words of s, started with the dict d
BuildVocab(d, s) ==
    IF s = <<>> THEN d ELSE BuildVocab(AddWord(d, Head(s)), Tail(s))

BowInit ==
    /\ pc = "bow_call"
    /\ bound = {"word_to_ix"}
    /\ data = <<>>
    /\ test_data = <<>>
    /\ corpus = <<>>
    /\ si = 1
    /\ wi = 1
    /\ \E c \in BowSentences : word_to_ix = BuildVocab(EmptyDict, c)
    /\ VOCAB_SIZE = NoInt
    /\ NUM_LABELS = NoInt
    /\ model = NoModel
    /\ theta = <<>>
    /\ grad = EmptyBag
    /\ sample = NoExample
    /\ bow_vector = <<>>
    /\ label_to_ix = EmptyDict
    /\ optimizer = NoOptimizer
    /\ epoch_it = 0
    /\ epoch = NoInt
    /\ inst_it = 1
    /\ test_it = 1
    /\ instance \in BowSentences
    /\ label = ""
    /\ bow_vec = <<>>
    /\ target = <<>>
    /\ log_probs = NoLogProbs
    /\ loss = NoLoss
    /\ ops = <<>>
    /\ at_model = NoFrame

\* bow_vec = make_bow_vector(instance, word_to_ix)
BowCall ==
    /\ pc = "bow_call"
    /\ LET r == make_bow_vector(instance, word_to_ix)
       IN  IF r.err # "" THEN Raise(r.err)
           ELSE /\ bow_vec' = r.val
                /\ bound' = bound \cup {"bow_vec"}
                /\ pc' = "bow_return"
                /\ UNCHANGED <<at_model, inputVars, vocabVars, paramVars,
                               sampleVars, label_to_ix, optimizer, iterVars,
                               instance, label, target, log_probs, loss, ops>>

BowNext == BowCall

BowSpec == BowInit /\ [][BowNext]_vars

\* the number of occurrences of w in s
Count(s, w) == Cardinality({k \in 1..Len(s) : s[k] = w})

\* C2: for a sentence whose words are all keys of word_to_ix the call raises
\* nothing and returns a 1 x len(word_to_ix) tensor whose entry at index
\* word_to_ix[w] is the number of occurrences of w in the sentence, for every
\* word w of the vocabulary; with hello -> 0 and world -> 1, four times hello
\* gives [4, 0] and "hello world world hello" gives [2, 2].
C2_BowCounts ==
    /\ Range(instance) \subseteq DOMAIN word_to_ix => pc \in {"bow_call", "bow_return"}
    /\ pc = "bow_return" =>
          /\ Range(instance) \subseteq DOMAIN word_to_ix
          /\ Len(bow_vec) = 1
          /\ Len(bow_vec[1]) = DictLen(word_to_ix)
          /\ \A w \in DOMAIN word_to_ix :
                bow_vec[1][word_to_ix[w] + 1] = Count(instance, w)
          /\ word_to_ix = BuildVocab(EmptyDict, <<"hello", "world">>) =>
                /\ instance = <<"hello", "hello", "hello", "hello">>
                      => bow_vec = << <<4, 0>> >>
                /\ instance = <<"hello", "world", "world", "hello">>
                      => bow_vec = << <<2, 2>> >>

\* C2 witness: with hello -> 0 and world -> 1 the call has returned [2, 2]
\* for "hello world world hello".
C2_Witness ==
    /\ pc = "bow_return"
    /\ DOMAIN word_to_ix = {"hello", "world"}
    /\ word_to_ix["hello"] = 0
    /\ word_to_ix["world"] = 1
    /\ instance = <<"hello", "world", "world", "hello">>
    /\ bow_vec = << <<2, 2>> >>

====
